---- MODULE Spec2Model ----
(***************************************************************************)
(* Detection pipeline and timeline segmentation of Fred The Video Butcher. *)
(*                                                                         *)
(* Time is counted in ticks of a quarter of a second, the finest grain of  *)
(* the program's own constants: SAFETY_PADDING 0.25 s = 1 tick, the        *)
(* sampling interval 0.5 s = 2 ticks, MERGE_THRESHOLD 1.0 s = 4 ticks.     *)
(* All these values are exact binary fractions, so the floating-point      *)
(* arithmetic of the source is exact on them.                              *)
(*                                                                         *)
(* Two specifications share the module:                                    *)
(*   TimelineSpec  TimelineManager.processDetections applied to bounded    *)
(*                 detection arrays (the Segment Builder and Inverter);    *)
(*   Spec          one run of VisionProcessor.analyzeVideo (the sampler).  *)
(***************************************************************************)
EXTENDS Integers, Sequences, FiniteSets, TLC

VARIABLES
  \* ---- TimelineManager (src/services/TimelineManager.ts) ----
  events,         \* the DetectionEvent[] array passed to processDetections
  totalDuration,  \* the duration passed to processDetections, in ticks
  calls,          \* the calls made so far: <<[input, output]>>
  uuidCount,      \* number of values crypto.randomUUID() has returned
  tpc,            \* position of the caller: "first", "second", "reordered", "done"
  \* ---- VisionProcessor.analyzeVideo (src/services/VisionProcessor.ts) ----
  variant,        \* "color" (VisionProcessor.ts) or "template" (TimelineManager.ts:217)
  pc,             \* position of the run
  video,          \* the media element: "none", "loading", "loaded", "failed"
  duration,       \* video.duration in ticks
  currentTime,    \* let currentTime
  frameCount,     \* let frameCount
  seeks,          \* the values assigned to video.currentTime, in order
  detections,     \* const detections
  progressLog,    \* the ProcessingProgress values handed to onProgress
  settled,        \* what the promise settled with: "pending", "resolved", "rejected"
  outcomes,       \* what the matcher did with each frame of the run, in order
  elapsed,        \* the last reading of performance.now() - startTime, in ms
  runCount,       \* number of analyzeVideo calls made
  inFlight,       \* number of analyzeVideo promises not yet settled
  reads,          \* the video position of each frame drawImage has read
  mats,           \* the matrices pre-allocated in onloadeddata: "none", "live",
                  \* "deleted", "deletedTwice"
  template,       \* the Mat of the reference image, likewise
  \* ---- App (src/App.tsx) ----
  appState,       \* 'IDLE' | 'PREVIEW' | 'PROCESSING' | 'REVIEW'
  activeAsset,    \* <<>> for null, <<d>> for a video of duration d ticks
  referenceImg,   \* whether a reference image is set
  timelineData,   \* <<>> for null, <<TimelineState>> otherwise
  hpc,            \* position of handleStartProcessing: "none", "awaitAnalyze",
                  \* "awaitMetadata"
  \* ---- VisionProcessor.loadOpenCV ----
  lvariant,       \* which copy of loadOpenCV: "color" or "template"
  isCvLoaded,     \* this.isCvLoaded
  windowCv,       \* window.cv: "undefined", "initialising" (no Mat, no
                  \* getBuildInformation yet) or "ready"
  scripts,        \* the script elements appended to document.body, each
                  \* "loading", "loaded" or "failed"
  loadCalls,      \* the calls of loadOpenCV: [state, script]
  onRuntimeInitialized,  \* the call whose handler window.cv.onRuntimeInitialized
                  \* holds, 0 for none
  \* ---- the colour matcher on one frame ----
  contourAreas,   \* cv.contourArea of each contour findContours returned
  matchResult,    \* the detections the frame pushed
  mpc             \* "frame" before the contour loop, "matched" after

tvars == <<events, totalDuration, calls, uuidCount, tpc>>
rvars == <<variant, pc, video, duration, currentTime, frameCount, seeks,
           detections, progressLog, settled, outcomes, elapsed, runCount, inFlight,
           reads, mats, template>>
avars == <<appState, activeAsset, referenceImg, timelineData, hpc>>
lvars == <<lvariant, isCvLoaded, windowCv, scripts, loadCalls, onRuntimeInitialized>>
mvars == <<contourAreas, matchResult, mpc>>
ovars == <<lvariant, isCvLoaded, windowCv, scripts, loadCalls, onRuntimeInitialized,
           contourAreas, matchResult, mpc>>
vars == <<events, totalDuration, calls, uuidCount, tpc,
          variant, pc, video, duration, currentTime, frameCount, seeks,
          detections, progressLog, settled, outcomes, elapsed, runCount, inFlight,
          reads, mats, template,
          appState, activeAsset, referenceImg, timelineData, hpc,
          lvariant, isCvLoaded, windowCv, scripts, loadCalls, onRuntimeInitialized,
          contourAreas, matchResult, mpc>>

----------------------------------------------------------------------------
\* Bounds of the model

\* longest detection array handed to processDetections
MaxEvents == 3
\* largest totalDuration (ticks) of the enumerated inputs
MaxDuration == 6
\* largest video.duration (ticks) of an analysis run
MaxVideoDuration == 5
\* largest number of analyzeVideo calls in one behaviour
MaxRuns == 2

----------------------------------------------------------------------------
\* Program constants (in ticks)

MERGE_THRESHOLD == 4
SAFETY_PADDING == 1
FPS_SAMPLE_RATE == 2

Max(a, b) == IF a >= b THEN a ELSE b
Min(a, b) == IF a <= b THEN a ELSE b

\* A DetectionEvent; the matcher only ever emits type 'menu_hold'.
DetectionEvent(t, c) == [timestamp |-> t, confidence |-> c, type |-> "menu_hold"]

----------------------------------------------------------------------------
\* TimelineManager

\* Array.prototype.sort with (a, b) => a.timestamp - b.timestamp: a stable
\* sort, here by insertion of each element after the last one not greater.
RECURSIVE InsertSorted(_, _)
InsertSorted(sorted, e) ==
  IF sorted = <<>> THEN <<e>>
  ELSE IF sorted[Len(sorted)].timestamp - e.timestamp <= 0
       THEN Append(sorted, e)
       ELSE Append(InsertSorted(SubSeq(sorted, 1, Len(sorted) - 1), e),
                   sorted[Len(sorted)])

RECURSIVE SortByTimestamp(_)
SortByTimestamp(evs) ==
  IF evs = <<>> THEN <<>>
  ELSE InsertSorted(SortByTimestamp(SubSeq(evs, 1, Len(evs) - 1)), evs[Len(evs)])

\* createBadSegment; id is the value crypto.randomUUID() returns.
createBadSegment_NoUpperClamp(start, end, maxDuration, id) ==
  [id |-> id, start |-> Max(0, start - SAFETY_PADDING),
   end |-> end + SAFETY_PADDING, type |-> "remove"]

\* pads by the merge threshold instead of the safety padding
createBadSegment_WidePadding(start, end, maxDuration, id) ==
  [id |-> id, start |-> Max(0, start - MERGE_THRESHOLD),
   end |-> Min(maxDuration, end + MERGE_THRESHOLD), type |-> "remove"]

createBadSegment_NoLowerClamp(start, end, maxDuration, id) ==
  [id |-> id, start |-> start - SAFETY_PADDING,
   end |-> Min(maxDuration, end + SAFETY_PADDING), type |-> "remove"]

createBadSegment(start, end, maxDuration, id) ==
  [id |-> id,
   start |-> Max(0, start - SAFETY_PADDING),
   end |-> Min(maxDuration, end + SAFETY_PADDING),
   type |-> "remove"]

\* The for loop of groupDetections from index i on, followed by the push of
\* the final segment.  uuid is the number of UUIDs generated before the call;
\* the k-th UUID ever generated is the token k.
RECURSIVE GroupLoop_StrictGap(_, _, _, _, _, _, _)
GroupLoop_StrictGap(sortedEvents, i, currentStart, currentEnd, segments, dur, uuid) ==
  IF i > Len(sortedEvents)
  THEN Append(segments,
              createBadSegment(currentStart, currentEnd, dur, uuid + Len(segments) + 1))
  ELSE LET event == sortedEvents[i]
           gap == event.timestamp - currentEnd
       IN IF gap < MERGE_THRESHOLD
          THEN GroupLoop_StrictGap(sortedEvents, i + 1, currentStart, event.timestamp,
                                   segments, dur, uuid)
          ELSE GroupLoop_StrictGap(sortedEvents, i + 1, event.timestamp, event.timestamp,
                 Append(segments,
                        createBadSegment(currentStart, currentEnd, dur,
                                         uuid + Len(segments) + 1)),
                 dur, uuid)

RECURSIVE GroupLoop_Unshift(_, _, _, _, _, _, _)
GroupLoop_Unshift(sortedEvents, i, currentStart, currentEnd, segments, dur, uuid) ==
  IF i > Len(sortedEvents)
  THEN <<createBadSegment(currentStart, currentEnd, dur, uuid + Len(segments) + 1)>>
       \o segments
  ELSE LET event == sortedEvents[i]
           gap == event.timestamp - currentEnd
       IN IF gap <= MERGE_THRESHOLD
          THEN GroupLoop_Unshift(sortedEvents, i + 1, currentStart, event.timestamp,
                                 segments, dur, uuid)
          ELSE GroupLoop_Unshift(sortedEvents, i + 1, event.timestamp, event.timestamp,
                 <<createBadSegment(currentStart, currentEnd, dur,
                                    uuid + Len(segments) + 1)>> \o segments,
                 dur, uuid)

RECURSIVE GroupLoop(_, _, _, _, _, _, _)
GroupLoop(sortedEvents, i, currentStart, currentEnd, segments, dur, uuid) ==
  IF i > Len(sortedEvents)
  THEN Append(segments,
              createBadSegment(currentStart, currentEnd, dur, uuid + Len(segments) + 1))
  ELSE LET event == sortedEvents[i]
           gap == event.timestamp - currentEnd
       IN IF gap <= MERGE_THRESHOLD
          THEN GroupLoop(sortedEvents, i + 1, currentStart, event.timestamp,
                         segments, dur, uuid)
          ELSE GroupLoop(sortedEvents, i + 1, event.timestamp, event.timestamp,
                 Append(segments,
                        createBadSegment(currentStart, currentEnd, dur,
                                         uuid + Len(segments) + 1)),
                 dur, uuid)

\* groupDetections: empty input gives [], otherwise sort a copy and group.
groupDetections_NoSort(evs, dur, uuid) ==
  IF Len(evs) = 0 THEN <<>>
  ELSE GroupLoop(evs, 2, evs[1].timestamp, evs[1].timestamp, <<>>, dur, uuid)

\* a segments array that outlives the call and is appended to by the next one
groupDetections_Retained(evs, dur, uuid) ==
  IF Len(evs) = 0 THEN <<>>
  ELSE LET sortedEvents == SortByTimestamp(evs)
           kept == IF calls = <<>> THEN <<>>
                   ELSE calls[Len(calls)].output.badSegments
       IN GroupLoop(sortedEvents, 2, sortedEvents[1].timestamp,
                    sortedEvents[1].timestamp, kept, dur, uuid)

groupDetections(evs, dur, uuid) ==
  IF Len(evs) = 0 THEN <<>>
  ELSE LET sortedEvents == SortByTimestamp(evs)
       IN GroupLoop(sortedEvents, 2, sortedEvents[1].timestamp,
                    sortedEvents[1].timestamp, <<>>, dur, uuid)

\* The for-of loop of calculateKeepRanges from index i on, followed by the
\* capture of the footage after the last bad segment.
RECURSIVE KeepLoop(_, _, _, _, _, _)
KeepLoop(badSegments, i, cursor, keepSegments, total, uuid) ==
  IF i > Len(badSegments)
  THEN IF cursor < total
       THEN Append(keepSegments,
                   [id |-> uuid + Len(keepSegments) + 1, start |-> cursor,
                    end |-> total, type |-> "keep"])
       ELSE keepSegments
  ELSE LET bad == badSegments[i]
       IN KeepLoop(badSegments, i + 1, Max(cursor, bad.end),
                   IF bad.start > cursor
                   THEN Append(keepSegments,
                               [id |-> uuid + Len(keepSegments) + 1, start |-> cursor,
                                end |-> bad.start, type |-> "keep"])
                   ELSE keepSegments,
                   total, uuid)

RECURSIVE KeepLoop_Unfiltered(_, _, _, _, _, _)
KeepLoop_Unfiltered(badSegments, i, cursor, keepSegments, total, uuid) ==
  IF i > Len(badSegments)
  THEN IF cursor <= total
       THEN Append(keepSegments,
                   [id |-> uuid + Len(keepSegments) + 1, start |-> cursor,
                    end |-> total, type |-> "keep"])
       ELSE keepSegments
  ELSE LET bad == badSegments[i]
       IN KeepLoop_Unfiltered(badSegments, i + 1, Max(cursor, bad.end),
                   IF bad.start >= cursor
                   THEN Append(keepSegments,
                               [id |-> uuid + Len(keepSegments) + 1, start |-> cursor,
                                end |-> bad.start, type |-> "keep"])
                   ELSE keepSegments,
                   total, uuid)

calculateKeepRanges_Unfiltered(badSegments, total, uuid) ==
  KeepLoop_Unfiltered(badSegments, 1, 0, <<>>, total, uuid)

\* the trailing keep segment is forgotten when there was no bad segment
calculateKeepRanges_NoTrailing(badSegments, total, uuid) ==
  IF badSegments = <<>> THEN <<>>
  ELSE KeepLoop(badSegments, 1, 0, <<>>, total, uuid)

calculateKeepRanges(badSegments, total, uuid) ==
  KeepLoop(badSegments, 1, 0, <<>>, total, uuid)

processDetections(evs, total, uuid) ==
  LET badSegments == groupDetections(evs, total, uuid)
      keepSegments == calculateKeepRanges(badSegments, total, uuid + Len(badSegments))
  IN [badSegments |-> badSegments, keepSegments |-> keepSegments,
      totalDuration |-> total]

----------------------------------------------------------------------------
\* The caller of processDetections

\* the start/end bounds of a list of TimeRange
RECURSIVE BoundsOf(_)
BoundsOf(segs) ==
  IF segs = <<>> THEN <<>>
  ELSE <<(<<segs[1].start, segs[1].end>>)>> \o BoundsOf(Tail(segs))

Bounds(out) == [bad |-> BoundsOf(out.badSegments), keep |-> BoundsOf(out.keepSegments)]

Bijections(n) == {p \in [1..n -> 1..n] : \A i, j \in 1..n : p[i] = p[j] => i = j}
Orderings(s) == {[i \in 1..Len(s) |-> s[p[i]]] : p \in Bijections(Len(s))}

RECURSIVE SeqsUpTo(_, _)
SeqsUpTo(S, n) ==
  IF n = 0 THEN {<<>>}
  ELSE LET shorter == SeqsUpTo(S, n - 1)
       IN shorter \cup {Append(q, x) : q \in {r \in shorter : Len(r) = n - 1}, x \in S}

\* The example of the grouping property: events at 1.0, 1.5 and 5.0 s in a
\* video of 10.0 s.
GroupingExample ==
  [events |-> <<DetectionEvent(4, 100), DetectionEvent(6, 100), DetectionEvent(20, 100)>>,
   totalDuration |-> 10 * 4]

\* Events at 0.0, 1.0, 2.25 and 3.5 s in a video of 3.5 s: a gap of exactly
\* MERGE_THRESHOLD, then two gaps just above it, that is three runs, the
\* first and the last clamped.
ExactGapExample ==
  [events |-> <<DetectionEvent(0, 100), DetectionEvent(4, 100),
                DetectionEvent(9, 100), DetectionEvent(14, 100)>>,
   totalDuration |-> 14]

\* Inputs: every array of at most MaxEvents events whose timestamps lie in
\* [0, totalDuration], in every order, for every duration up to MaxDuration,
\* and the orders of the two examples.
InputsOfDuration(d) ==
  {[events |-> e, totalDuration |-> d] :
      e \in SeqsUpTo({DetectionEvent(t, 100) : t \in 0..d}, MaxEvents)}

TimelineInputs ==
  (UNION {InputsOfDuration(d) : d \in 1..MaxDuration})
  \cup {[events |-> e, totalDuration |-> GroupingExample.totalDuration] :
          e \in Orderings(GroupingExample.events)}
  \cup {[events |-> e, totalDuration |-> ExactGapExample.totalDuration] :
          e \in Orderings(ExactGapExample.events)}

\* The caller's array after groupDetections: [...events].sort(...) sorts a
\* copy and leaves the argument as it was.
\* (events.sort(...) on the argument itself)
eventsAfterSort_InPlace(evs) == SortByTimestamp(evs)

eventsAfterSort(evs) == evs

\* TimelineManager.processDetections(events, totalDuration)
ProcessDetections ==
  /\ tpc \in {"first", "second", "reordered"}
  /\ LET out == processDetections(events, totalDuration, uuidCount)
     IN /\ calls' = Append(calls, [input |-> events, output |-> out])
        /\ uuidCount' = uuidCount + Len(out.badSegments) + Len(out.keepSegments)
  /\ tpc' = IF tpc = "first" THEN "second" ELSE "done"
  /\ events' = eventsAfterSort(events)
  /\ UNCHANGED totalDuration
  /\ UNCHANGED rvars
  /\ UNCHANGED avars
  /\ UNCHANGED ovars

\* The caller hands the same events over in another order.
Reorder ==
  /\ tpc = "second"
  /\ \E e \in Orderings(events) \ {events} : events' = e
  /\ tpc' = "reordered"
  /\ UNCHANGED <<totalDuration, calls, uuidCount>>
  /\ UNCHANGED rvars
  /\ UNCHANGED avars
  /\ UNCHANGED ovars

----------------------------------------------------------------------------
\* VisionProcessor.analyzeVideo

\* const interval = 1 / FPS_SAMPLE_RATE, in ticks
interval == 4 \div FPS_SAMPLE_RATE

\* Math.floor(duration * FPS_SAMPLE_RATE) || 1 in the colour matcher,
\* Math.floor(duration * FPS_SAMPLE_RATE) in the template matcher
totalFramesToScan(v, dur) ==
  LET n == (dur * FPS_SAMPLE_RATE) \div 4
  IN IF v = "color" /\ n = 0 THEN 1 ELSE n

\* confidences a matching frame is reported with
MatchConfidences == {80}
\* what the matcher does with one frame: no detection, a detection with a
\* confidence, or an exception (caught by the try block around it)
MatchOutcomes ==
  {[kind |-> "nomatch", confidence |-> 0], [kind |-> "throw", confidence |-> 0]}
  \cup {[kind |-> "match", confidence |-> c] : c \in MatchConfidences}

\* One invocation of processLoop: finish when currentTime >= duration,
\* otherwise assign video.currentTime and wait for 'seeked'.
\* (isProcessing is never set to false, so its branch is never taken.)
processLoop_SamplesEnd(ct) ==
  IF ct > duration'
  THEN /\ settled' = "resolved"
       /\ pc' = "ended"
       /\ seeks' = seeks
  ELSE /\ seeks' = Append(seeks, ct)
       /\ pc' = "seeking"
       /\ settled' = settled

\* (cleaning up at the end without calling resolve)
processLoop_NoResolve(ct) ==
  IF ct >= duration'
  THEN /\ settled' = settled
       /\ pc' = "ended"
       /\ seeks' = seeks
  ELSE /\ seeks' = Append(seeks, ct)
       /\ pc' = "seeking"
       /\ settled' = settled

processLoop(ct) ==
  IF ct >= duration'
  THEN /\ settled' = "resolved"
       /\ pc' = "ended"
       /\ seeks' = seeks
  ELSE /\ seeks' = Append(seeks, ct)
       /\ pc' = "seeking"
       /\ settled' = settled

\* the readings of performance.now() - startTime (ms) a frame may see
ElapsedReadings == {0, 400}

\* Math.round(n / d) for n >= 0 and d > 0
Round(n, d) == (2 * n + d) \div (2 * d)

\* fps values: a finite number or Infinity
Finite(n) == [finite |-> TRUE, value |-> n]
Infinity == [finite |-> FALSE, value |-> 0]

\* the fps field of a progress report; e is the elapsed time in ms:
\* elapsed > 0 ? Math.round(frameCount / elapsed) : 0 in the colour matcher,
\* Math.round(frameCount / elapsed) in the template matcher
FramesPerSecond(v, fc, e) ==
  IF v = "color"
  THEN IF e > 0 THEN Finite(Round(fc * 1000, e)) ELSE Finite(0)
  ELSE IF e = 0
       THEN IF fc = 0 THEN Finite(0) ELSE Infinity
       ELSE Finite(Round(fc * 1000, e))

\* const detections: DetectionEvent[] = [] of a new run
\* (as an array that lives on the instance and is never emptied)
freshDetections_Retained == detections

freshDetections == <<>>

\* detections.push({timestamp: currentTime, confidence, type: 'menu_hold'})
\* when the frame matched
pushDetection_Unshift(dets, outcome, ct) ==
  IF outcome.kind = "match"
  THEN <<DetectionEvent(ct, outcome.confidence)>> \o dets
  ELSE dets

\* (stamped with the time of the next sample)
pushDetection_NextTime(dets, outcome, ct) ==
  IF outcome.kind = "match"
  THEN Append(dets, DetectionEvent(ct + interval, outcome.confidence))
  ELSE dets

pushDetection(dets, outcome, ct) ==
  IF outcome.kind = "match"
  THEN Append(dets, DetectionEvent(ct, outcome.confidence))
  ELSE dets

\* frameCount++ after the try block
\* (counting only the frames that matched)
countFrame_OnlyMatches(fc, outcome) == IF outcome.kind = "match" THEN fc + 1 ELSE fc

countFrame(fc, outcome) == fc + 1

\* onProgress({...}) after the try block
\* (reporting from inside the try block, so not after a throw)
reportProgress_InsideTry(log, outcome, p) ==
  IF outcome.kind = "throw" THEN log ELSE Append(log, p)

reportProgress(log, outcome, p) == Append(log, p)

\* Where the run stands after the matcher: catch (err) logs the error and
\* the loop goes on to schedule the next processLoop.
afterMatch(outcome) == [pc |-> "timeout", settled |-> "pending"]

\* ctx.drawImage(video, ...) after the await: the frame at the position the
\* last seek went to
\* (drawing without the await: the frame of the position before that seek)
frameRead_BeforeSeeked(sk) == IF Len(sk) > 1 THEN sk[Len(sk) - 1] ELSE 0

frameRead(sk) == sk[Len(sk)]

\* setTimeout(processLoop, 0): the next processLoop runs in a later turn
\* (calling processLoop() directly at the end of the frame)
scheduleLoop_Direct(outcome, ct) == processLoop(ct)

scheduleLoop(outcome, ct) ==
  /\ pc' = afterMatch(outcome).pc
  /\ settled' = afterMatch(outcome).settled
  /\ seeks' = seeks

\* m.delete()
deleteMat(m) == IF m = "live" THEN "deleted" ELSE "deletedTwice"

\* the pending promises after a step
InFlightAfter ==
  IF settled = "pending" /\ settled' # "pending" THEN inFlight - 1 ELSE inFlight

----------------------------------------------------------------------------
\* App

AssetDuration == activeAsset[1]

\* The 'Process Footage' button is rendered in PREVIEW with a video only and
\* is disabled without a reference image; handleStartProcessing returns at
\* once unless both are there.
\* (a button rendered in every state)
canStartProcessing_AnyState ==
  /\ activeAsset # <<>>
  /\ referenceImg

\* (a button that is enabled without a reference image)
canStartProcessing_NoReference ==
  /\ appState = "PREVIEW"
  /\ activeAsset # <<>>

canStartProcessing ==
  /\ appState = "PREVIEW"
  /\ activeAsset # <<>>
  /\ referenceImg

\* handleFileSelected, from the drop zone shown in IDLE
HandleFileSelected ==
  /\ appState = "IDLE"
  /\ \E d \in 1..MaxVideoDuration : activeAsset' = <<d>>
  /\ appState' = "PREVIEW"
  /\ UNCHANGED <<referenceImg, timelineData, hpc>>
  /\ UNCHANGED rvars
  /\ UNCHANGED tvars
  /\ UNCHANGED ovars

\* handleReferenceSelected, from the uploader shown in IDLE and PREVIEW
HandleReferenceSelected ==
  /\ appState \in {"IDLE", "PREVIEW"}
  /\ appState = "PREVIEW" => activeAsset # <<>>
  /\ referenceImg' = TRUE
  /\ UNCHANGED <<appState, activeAsset, timelineData, hpc>>
  /\ UNCHANGED rvars
  /\ UNCHANGED tvars
  /\ UNCHANGED ovars

\* handleRemoveVideo, from the preview shown in PREVIEW
HandleRemoveVideo ==
  /\ appState = "PREVIEW"
  /\ activeAsset # <<>>
  /\ activeAsset' = <<>>
  /\ appState' = "IDLE"
  /\ timelineData' = <<>>
  /\ UNCHANGED <<referenceImg, hpc>>
  /\ UNCHANGED rvars
  /\ UNCHANGED tvars
  /\ UNCHANGED ovars

\* onCancel of the dashboard shown in REVIEW
CancelReview ==
  /\ appState = "REVIEW"
  /\ timelineData # <<>>
  /\ appState' = "PREVIEW"
  /\ UNCHANGED <<activeAsset, referenceImg, timelineData, hpc>>
  /\ UNCHANGED rvars
  /\ UNCHANGED tvars
  /\ UNCHANGED ovars

\* handleStartProcessing up to its await, with analyzeVideo up to the end of
\* the promise executor's synchronous part: video.src = asset.previewUrl
\* fixes the resource whose duration the element will report; the colour
\* matcher attaches video.onloadeddata and video.onerror at once, the
\* template matcher first awaits loadReferenceImage.
AnalyzeVideo ==
  /\ canStartProcessing
  /\ runCount < MaxRuns
  /\ appState' = "PROCESSING"
  /\ hpc' = "awaitAnalyze"
  /\ \E v \in {"color", "template"} :
       /\ variant' = v
       /\ pc' = IF v = "color" THEN "waitVideo" ELSE "loadingRef"
  /\ video' = "loading"
  /\ duration' = AssetDuration
  /\ detections' = freshDetections
  /\ settled' = "pending"
  /\ seeks' = <<>> /\ progressLog' = <<>> /\ outcomes' = <<>>
  /\ reads' = <<>> /\ mats' = "none" /\ template' = "none"
  /\ runCount' = runCount + 1
  /\ inFlight' = inFlight + 1
  /\ UNCHANGED <<currentTime, frameCount, elapsed>>
  /\ UNCHANGED <<activeAsset, referenceImg, timelineData>>
  /\ UNCHANGED tvars
  /\ UNCHANGED ovars

\* the same when canvas.getContext('2d') returns null: reject at once, before
\* the detections array of the run exists
AnalyzeVideoNoContext ==
  /\ canStartProcessing
  /\ runCount < MaxRuns
  /\ appState' = "PROCESSING"
  /\ hpc' = "awaitAnalyze"
  /\ \E v \in {"color", "template"} : variant' = v
  /\ pc' = "ended"
  /\ video' = "loading"
  /\ duration' = AssetDuration
  /\ settled' = "rejected"
  /\ detections' = <<>>
  /\ seeks' = <<>> /\ progressLog' = <<>> /\ outcomes' = <<>>
  /\ reads' = <<>> /\ mats' = "none" /\ template' = "none"
  /\ runCount' = runCount + 1
  /\ UNCHANGED <<currentTime, frameCount, elapsed, inFlight>>
  /\ UNCHANGED <<activeAsset, referenceImg, timelineData>>
  /\ UNCHANGED tvars
  /\ UNCHANGED ovars

\* img.onload of loadReferenceImage: the grey Mat of the template is created
\* and the executor goes on to attach video.onloadeddata and video.onerror
ReferenceImageLoaded ==
  /\ pc = "loadingRef"
  /\ pc' = "waitVideo"
  /\ template' = "live"
  /\ UNCHANGED <<variant, video, duration, currentTime, frameCount, seeks,
                 detections, progressLog, settled, outcomes, elapsed, runCount,
                 inFlight, reads, mats>>
  /\ UNCHANGED avars
  /\ UNCHANGED tvars
  /\ UNCHANGED ovars

\* img.onerror of loadReferenceImage
ReferenceImageError ==
  /\ pc = "loadingRef"
  /\ pc' = "ended"
  /\ settled' = "rejected"
  /\ inFlight' = InFlightAfter
  /\ UNCHANGED <<variant, video, duration, currentTime, frameCount, seeks,
                 detections, progressLog, outcomes, elapsed, runCount,
                 reads, mats, template>>
  /\ UNCHANGED avars
  /\ UNCHANGED tvars
  /\ UNCHANGED ovars

\* The media element fires 'loadeddata'.  With the handler attached,
\* onloadeddata initialises the run (startTime = performance.now()),
\* allocates the matrices and calls processLoop() itself, which deletes the
\* matrices and the template when it finishes; without the handler the
\* event is gone.
VideoLoadedData ==
  /\ video = "loading"
  /\ video' = "loaded"
  /\ duration' = duration
  /\ IF pc = "waitVideo"
     THEN /\ currentTime' = 0
          /\ frameCount' = 0
          /\ elapsed' = 0
          /\ processLoop(0)
          /\ mats' = IF pc' = "ended" THEN deleteMat("live") ELSE "live"
          /\ template' = IF pc' = "ended" /\ variant = "template"
                         THEN deleteMat(template) ELSE template
     ELSE UNCHANGED <<currentTime, frameCount, elapsed, seeks, pc, settled,
                      mats, template>>
  /\ inFlight' = InFlightAfter
  /\ UNCHANGED <<variant, detections, progressLog, outcomes, runCount, reads>>
  /\ UNCHANGED avars
  /\ UNCHANGED tvars
  /\ UNCHANGED ovars

\* The media element fires 'error'.
VideoError ==
  /\ video = "loading"
  /\ video' = "failed"
  /\ IF pc = "waitVideo"
     THEN pc' = "ended" /\ settled' = "rejected"
     ELSE UNCHANGED <<pc, settled>>
  /\ inFlight' = InFlightAfter
  /\ UNCHANGED <<variant, duration, currentTime, frameCount, seeks, detections,
                 progressLog, outcomes, elapsed, runCount, reads, mats, template>>
  /\ UNCHANGED avars
  /\ UNCHANGED tvars
  /\ UNCHANGED ovars

\* 'seeked' arrives: draw the frame, match it (a thrown error is caught and
\* logged), count the frame, report progress, advance currentTime and
\* schedule processLoop with setTimeout.
Seeked ==
  /\ pc = "seeking"
  /\ duration' = duration
  /\ reads' = Append(reads, frameRead(seeks))
  /\ \E outcome \in MatchOutcomes, e \in ElapsedReadings :
       /\ e >= elapsed
       /\ elapsed' = e
       /\ outcomes' = Append(outcomes, outcome)
       /\ detections' = pushDetection(detections, outcome, currentTime)
       /\ frameCount' = countFrame(frameCount, outcome)
       /\ progressLog' =
            reportProgress(progressLog, outcome,
              [processedFrames |-> frameCount',
               totalFrames |-> totalFramesToScan(variant, duration),
               fps |-> FramesPerSecond(variant, frameCount', e),
               currentTimestamp |-> currentTime])
       /\ scheduleLoop(outcome, currentTime + interval)
  /\ currentTime' = currentTime + interval
  /\ inFlight' = InFlightAfter
  /\ UNCHANGED <<variant, video, runCount, mats, template>>
  /\ UNCHANGED avars
  /\ UNCHANGED tvars
  /\ UNCHANGED ovars

\* the timer fires: processLoop runs again
ProcessLoop ==
  /\ pc = "timeout"
  /\ duration' = duration
  /\ processLoop(currentTime)
  /\ mats' = IF pc' = "ended" THEN deleteMat(mats) ELSE mats
  /\ template' = IF pc' = "ended" /\ variant = "template"
                 THEN deleteMat(template) ELSE template
  /\ inFlight' = InFlightAfter
  /\ UNCHANGED <<variant, video, currentTime, frameCount, detections, progressLog,
                 outcomes, elapsed, runCount, reads>>
  /\ UNCHANGED avars
  /\ UNCHANGED tvars
  /\ UNCHANGED ovars

\* handleStartProcessing after await vision.analyzeVideo(...) resolved: it
\* creates a video element for the same asset and awaits 'loadedmetadata'
AnalysisResolved ==
  /\ hpc = "awaitAnalyze"
  /\ settled = "resolved"
  /\ hpc' = "awaitMetadata"
  /\ UNCHANGED <<appState, activeAsset, referenceImg, timelineData>>
  /\ UNCHANGED rvars
  /\ UNCHANGED tvars
  /\ UNCHANGED ovars

\* 'loadedmetadata' arrives: processDetections(rawDetections,
\* videoElement.duration), setTimelineData(results), setAppState('REVIEW')
MetadataLoaded ==
  /\ hpc = "awaitMetadata"
  /\ LET results == processDetections(detections, AssetDuration, uuidCount)
     IN /\ events' = detections
        /\ totalDuration' = AssetDuration
        /\ timelineData' = <<results>>
        /\ uuidCount' = uuidCount + Len(results.badSegments) + Len(results.keepSegments)
  /\ appState' = "REVIEW"
  /\ hpc' = "none"
  /\ UNCHANGED <<activeAsset, referenceImg>>
  /\ UNCHANGED <<calls, tpc>>
  /\ UNCHANGED rvars
  /\ UNCHANGED ovars

\* the catch block of handleStartProcessing: analyzeVideo rejected
AnalysisRejected_ClearsData ==
  /\ hpc = "awaitAnalyze"
  /\ settled = "rejected"
  /\ appState' = "PREVIEW"
  /\ timelineData' = <<>>
  /\ hpc' = "none"
  /\ UNCHANGED <<activeAsset, referenceImg>>
  /\ UNCHANGED rvars
  /\ UNCHANGED tvars
  /\ UNCHANGED ovars

AnalysisRejected ==
  /\ hpc = "awaitAnalyze"
  /\ settled = "rejected"
  /\ appState' = "PREVIEW"
  /\ hpc' = "none"
  /\ UNCHANGED <<activeAsset, referenceImg, timelineData>>
  /\ UNCHANGED rvars
  /\ UNCHANGED tvars
  /\ UNCHANGED ovars

----------------------------------------------------------------------------
\* VisionProcessor.loadOpenCV

\* most calls of loadOpenCV in one behaviour
MaxLoadCalls == 3

\* the call whose promise executor appended script k
OwnerOf(k) == CHOOSE c \in 1..Len(loadCalls) : loadCalls[c].script = k

SetCallState(c, st) == [loadCalls EXCEPT ![c].state = st]

\* One call of loadOpenCV up to the end of the promise executor: return at
\* once when isCvLoaded && window.cv; in the colour matcher's copy resolve
\* when a script element is in the DOM and window.cv.Mat exists; otherwise
\* create a script element and append it.
LoadOpenCV ==
  /\ Len(loadCalls) < MaxLoadCalls
  /\ IF isCvLoaded /\ windowCv # "undefined"
     THEN /\ loadCalls' = Append(loadCalls, [state |-> "resolved", script |-> 0])
          /\ UNCHANGED <<isCvLoaded, scripts>>
     ELSE IF lvariant = "color" /\ scripts # <<>> /\ windowCv = "ready"
     THEN /\ isCvLoaded' = TRUE
          /\ loadCalls' = Append(loadCalls, [state |-> "resolved", script |-> 0])
          /\ UNCHANGED scripts
     ELSE /\ scripts' = Append(scripts, "loading")
          /\ loadCalls' =
               Append(loadCalls, [state |-> "waitScript", script |-> Len(scripts) + 1])
          /\ UNCHANGED isCvLoaded
  /\ UNCHANGED <<lvariant, windowCv, onRuntimeInitialized>>
  /\ UNCHANGED mvars
  /\ UNCHANGED tvars
  /\ UNCHANGED rvars
  /\ UNCHANGED avars

\* The browser runs a fetched opencv.js: window.cv exists and its runtime
\* starts to initialise.
ScriptExecuted ==
  /\ \E k \in 1..Len(scripts) :
       /\ scripts[k] = "loading"
       /\ scripts' = [scripts EXCEPT ![k] = "executed"]
  /\ windowCv' = IF windowCv = "undefined" THEN "initialising" ELSE windowCv
  /\ UNCHANGED <<lvariant, isCvLoaded, loadCalls, onRuntimeInitialized>>
  /\ UNCHANGED mvars
  /\ UNCHANGED tvars
  /\ UNCHANGED rvars
  /\ UNCHANGED avars

\* script.onload: resolve when window.cv.getBuildInformation exists,
\* otherwise assign window.cv.onRuntimeInitialized
ScriptLoaded ==
  /\ \E k \in 1..Len(scripts) :
       /\ scripts[k] = "executed"
       /\ scripts' = [scripts EXCEPT ![k] = "loaded"]
       /\ IF windowCv = "ready"
          THEN /\ isCvLoaded' = TRUE
               /\ loadCalls' = SetCallState(OwnerOf(k), "resolved")
               /\ UNCHANGED onRuntimeInitialized
          ELSE /\ onRuntimeInitialized' = OwnerOf(k)
               /\ loadCalls' = SetCallState(OwnerOf(k), "waitRuntime")
               /\ UNCHANGED isCvLoaded
  /\ UNCHANGED <<lvariant, windowCv>>
  /\ UNCHANGED mvars
  /\ UNCHANGED tvars
  /\ UNCHANGED rvars
  /\ UNCHANGED avars

\* script.onerror: reject
ScriptError ==
  /\ \E k \in 1..Len(scripts) :
       /\ scripts[k] = "loading"
       /\ scripts' = [scripts EXCEPT ![k] = "failed"]
       /\ loadCalls' = SetCallState(OwnerOf(k), "rejected")
  /\ UNCHANGED <<lvariant, isCvLoaded, windowCv, onRuntimeInitialized>>
  /\ UNCHANGED mvars
  /\ UNCHANGED tvars
  /\ UNCHANGED rvars
  /\ UNCHANGED avars

\* The runtime of window.cv is initialised and calls the handler that
\* window.cv.onRuntimeInitialized holds, if any.
RuntimeInitialized ==
  /\ windowCv = "initialising"
  /\ windowCv' = "ready"
  /\ IF onRuntimeInitialized # 0
     THEN /\ isCvLoaded' = TRUE
          /\ loadCalls' = SetCallState(onRuntimeInitialized, "resolved")
     ELSE UNCHANGED <<isCvLoaded, loadCalls>>
  /\ UNCHANGED <<lvariant, scripts, onRuntimeInitialized>>
  /\ UNCHANGED mvars
  /\ UNCHANGED tvars
  /\ UNCHANGED rvars
  /\ UNCHANGED avars

LoadInit ==
  /\ lvariant \in {"color", "template"}
  /\ isCvLoaded = FALSE /\ windowCv = "undefined"
  /\ scripts = <<>> /\ loadCalls = <<>> /\ onRuntimeInitialized = 0
  /\ contourAreas = <<>> /\ matchResult = <<>> /\ mpc = "off"
  /\ events = <<>> /\ totalDuration = 0 /\ calls = <<>> /\ uuidCount = 0
  /\ tpc = "off"
  /\ variant = "none" /\ pc = "off" /\ video = "none" /\ duration = 0
  /\ currentTime = 0 /\ frameCount = 0 /\ seeks = <<>> /\ detections = <<>>
  /\ progressLog = <<>> /\ settled = "pending"
  /\ outcomes = <<>> /\ elapsed = 0 /\ runCount = 0 /\ inFlight = 0
  /\ reads = <<>> /\ mats = "none" /\ template = "none"
  /\ appState = "IDLE" /\ activeAsset = <<>> /\ referenceImg = FALSE
  /\ timelineData = <<>> /\ hpc = "none"

LoadNext ==
  \/ LoadOpenCV
  \/ ScriptExecuted
  \/ ScriptLoaded
  \/ ScriptError
  \/ RuntimeInitialized

LoadSpec == LoadInit /\ [][LoadNext]_vars

----------------------------------------------------------------------------
\* The colour matcher on one frame (VisionProcessor.ts, processLoop step 5)

\* most contours of a frame
MaxContours == 3
\* canvas.width * canvas.height, in area units
FrameArea == 20
\* area > imgArea * 0.15, as a percentage
AREA_THRESHOLD_PERCENT == 15

\* normalised confidence (maxArea / (canvas.width * canvas.height)) * 100, as
\* a fraction
Confidence(area, imgArea) == [num |-> area * 100, den |-> imgArea]

\* The for loop over the contours from index i on.
\* (a threshold that lets an area of exactly 15 % through)
RECURSIVE ContourLoop_AtLeast(_, _, _, _, _)
ContourLoop_AtLeast(areas, i, maxArea, foundMenu, imgArea) ==
  IF i > Len(areas) THEN [maxArea |-> maxArea, foundMenu |-> foundMenu]
  ELSE IF areas[i] * 100 >= imgArea * AREA_THRESHOLD_PERCENT
       THEN ContourLoop_AtLeast(areas, i + 1, Max(maxArea, areas[i]), TRUE, imgArea)
       ELSE ContourLoop_AtLeast(areas, i + 1, maxArea, foundMenu, imgArea)

RECURSIVE ContourLoop(_, _, _, _, _)
ContourLoop(areas, i, maxArea, foundMenu, imgArea) ==
  IF i > Len(areas) THEN [maxArea |-> maxArea, foundMenu |-> foundMenu]
  ELSE IF areas[i] * 100 > imgArea * AREA_THRESHOLD_PERCENT
       THEN ContourLoop(areas, i + 1, Max(maxArea, areas[i]), TRUE, imgArea)
       ELSE ContourLoop(areas, i + 1, maxArea, foundMenu, imgArea)

\* let maxArea = 0, foundMenu = false; the loop; if (foundMenu)
\* detections.push(...): the detections one frame adds
matchContours(areas, imgArea) ==
  LET r == ContourLoop(areas, 1, 0, FALSE, imgArea)
  IN IF r.foundMenu THEN <<Confidence(r.maxArea, imgArea)>> ELSE <<>>

\* the lists of contour areas of a frame
FrameContours == SeqsUpTo(0..FrameArea, MaxContours)

\* findContours has returned; the frame is matched
MatchFrame ==
  /\ mpc = "frame"
  /\ matchResult' = matchContours(contourAreas, FrameArea)
  /\ mpc' = "matched"
  /\ UNCHANGED contourAreas
  /\ UNCHANGED lvars
  /\ UNCHANGED tvars
  /\ UNCHANGED rvars
  /\ UNCHANGED avars

MatcherInit ==
  /\ contourAreas \in FrameContours
  /\ matchResult = <<>>
  /\ mpc = "frame"
  /\ lvariant = "none" /\ isCvLoaded = FALSE /\ windowCv = "undefined"
  /\ scripts = <<>> /\ loadCalls = <<>> /\ onRuntimeInitialized = 0
  /\ events = <<>> /\ totalDuration = 0 /\ calls = <<>> /\ uuidCount = 0
  /\ tpc = "off"
  /\ variant = "color" /\ pc = "off" /\ video = "none" /\ duration = 0
  /\ currentTime = 0 /\ frameCount = 0 /\ seeks = <<>> /\ detections = <<>>
  /\ progressLog = <<>> /\ settled = "pending"
  /\ outcomes = <<>> /\ elapsed = 0 /\ runCount = 0 /\ inFlight = 0
  /\ reads = <<>> /\ mats = "none" /\ template = "none"
  /\ appState = "IDLE" /\ activeAsset = <<>> /\ referenceImg = FALSE
  /\ timelineData = <<>> /\ hpc = "none"

MatcherNext == MatchFrame

MatcherSpec == MatcherInit /\ [][MatcherNext]_vars

----------------------------------------------------------------------------
\* Specifications

TimelineInit ==
  /\ \E inp \in TimelineInputs :
       /\ events = inp.events
       /\ totalDuration = inp.totalDuration
  /\ calls = <<>>
  /\ uuidCount = 0
  /\ tpc = "first"
  /\ variant = "none" /\ pc = "off" /\ video = "none" /\ duration = 0
  /\ currentTime = 0 /\ frameCount = 0 /\ seeks = <<>> /\ detections = <<>>
  /\ progressLog = <<>> /\ settled = "pending"
  /\ outcomes = <<>> /\ elapsed = 0 /\ runCount = 0 /\ inFlight = 0
  /\ reads = <<>> /\ mats = "none" /\ template = "none"
  /\ appState = "IDLE" /\ activeAsset = <<>> /\ referenceImg = FALSE
  /\ timelineData = <<>> /\ hpc = "none"
  /\ lvariant = "none" /\ isCvLoaded = FALSE /\ windowCv = "undefined"
  /\ scripts = <<>> /\ loadCalls = <<>> /\ onRuntimeInitialized = 0
  /\ contourAreas = <<>> /\ matchResult = <<>> /\ mpc = "off"

TimelineNext == ProcessDetections \/ Reorder

TimelineSpec == TimelineInit /\ [][TimelineNext]_vars

Init ==
  /\ events = <<>> /\ totalDuration = 0 /\ calls = <<>> /\ uuidCount = 0
  /\ tpc = "off"
  /\ variant = "none" /\ pc = "idle" /\ video = "none" /\ duration = 0
  /\ currentTime = 0 /\ frameCount = 0 /\ seeks = <<>> /\ detections = <<>>
  /\ progressLog = <<>> /\ settled = "pending"
  /\ outcomes = <<>> /\ elapsed = 0 /\ runCount = 0 /\ inFlight = 0
  /\ reads = <<>> /\ mats = "none" /\ template = "none"
  /\ appState = "IDLE" /\ activeAsset = <<>> /\ referenceImg = FALSE
  /\ timelineData = <<>> /\ hpc = "none"
  /\ lvariant = "none" /\ isCvLoaded = FALSE /\ windowCv = "undefined"
  /\ scripts = <<>> /\ loadCalls = <<>> /\ onRuntimeInitialized = 0
  /\ contourAreas = <<>> /\ matchResult = <<>> /\ mpc = "off"

Next ==
  \/ HandleFileSelected
  \/ HandleReferenceSelected
  \/ HandleRemoveVideo
  \/ CancelReview
  \/ AnalyzeVideo
  \/ AnalyzeVideoNoContext
  \/ ReferenceImageLoaded
  \/ ReferenceImageError
  \/ VideoLoadedData
  \/ VideoError
  \/ Seeked
  \/ ProcessLoop
  \/ AnalysisResolved
  \/ MetadataLoaded
  \/ AnalysisRejected

Spec == Init /\ [][Next]_vars

\* The timer of setTimeout(processLoop, 0) fires and the continuations of a
\* settled promise run; nothing makes the media element deliver 'seeked',
\* 'loadeddata' or 'loadedmetadata'.
FairSpec ==
  /\ Spec
  /\ WF_vars(ProcessLoop)
  /\ WF_vars(AnalysisResolved)
  /\ WF_vars(AnalysisRejected)

\* The same with a media element that completes every seek it is given.
SeekFairSpec ==
  /\ FairSpec
  /\ WF_vars(Seeked)

----------------------------------------------------------------------------
\* Properties of TimelineManager.processDetections (under TimelineSpec)

Outputs == {calls[i].output : i \in 1..Len(calls)}
Timestamps(evs) == {evs[i].timestamp : i \in 1..Len(evs)}
IsSortedInput(evs) == \A i \in 1..(Len(evs) - 1) : evs[i].timestamp <= evs[i + 1].timestamp

\* <<start, end>> pairs put in time order: by start, then by end
RECURSIVE InsertInTimeOrder(_, _)
InsertInTimeOrder(sorted, b) ==
  IF sorted = <<>> THEN <<b>>
  ELSE LET last == sorted[Len(sorted)]
       IN IF last[1] < b[1] \/ (last[1] = b[1] /\ last[2] <= b[2])
          THEN Append(sorted, b)
          ELSE Append(InsertInTimeOrder(SubSeq(sorted, 1, Len(sorted) - 1), b), last)

RECURSIVE TimeOrder(_)
TimeOrder(bs) ==
  IF bs = <<>> THEN <<>>
  ELSE InsertInTimeOrder(TimeOrder(SubSeq(bs, 1, Len(bs) - 1)), bs[Len(bs)])

RECURSIVE SumOfWidths(_)
SumOfWidths(bs) == IF bs = <<>> THEN 0 ELSE (bs[1][2] - bs[1][1]) + SumOfWidths(Tail(bs))

Tiles(bs, total) ==
  /\ bs # <<>>
  /\ bs[1][1] = 0
  /\ \A i \in 1..(Len(bs) - 1) : bs[i + 1][1] = bs[i][2]
  /\ bs[Len(bs)][2] = total
  /\ SumOfWidths(bs) = total

\* C1 (Coverage): for every totalDuration > 0 and every detection array, the
\* keep and bad segments of the result, merged in time order, tile
\* [0, totalDuration]: the first starts at 0, each next one starts where the
\* previous one ends, the last ends at totalDuration, and the widths sum to
\* totalDuration.
C1_Coverage ==
  \A out \in Outputs :
    Tiles(TimeOrder(BoundsOf(out.keepSegments) \o BoundsOf(out.badSegments)),
          out.totalDuration)

C1_Witness ==
  \E out \in Outputs : /\ Len(out.badSegments) >= 2
                       /\ Len(out.keepSegments) >= 1
                       /\ out.totalDuration = totalDuration

\* C2 (Non-overlap): any two distinct bad segments of a result do not overlap:
\* the earlier one in output order ends no later than the later one starts.
C2_NonOverlap ==
  \A out \in Outputs :
    \A i, j \in 1..Len(out.badSegments) :
      i < j => out.badSegments[i].end <= out.badSegments[j].start

C2_Witness ==
  \E i \in 1..Len(calls) :
    /\ Len(calls[i].output.badSegments) >= 2
    /\ ~IsSortedInput(calls[i].input)

\* the least element of a non-empty set of integers
MinOf(S) == CHOOSE x \in S : \A y \in S : x <= y

RECURSIVE Ascending(_)
Ascending(S) == IF S = {} THEN <<>> ELSE <<MinOf(S)>> \o Ascending(S \ {MinOf(S)})

\* The maximal runs of a set T of timestamps in which consecutive gaps are at
\* most MERGE_THRESHOLD: a run starts at a timestamp with no other one within
\* MERGE_THRESHOLD before it, and ends at one with no other one within
\* MERGE_THRESHOLD after it.
RunStarts(T) == {t \in T : ~\E u \in T : u < t /\ t - u <= MERGE_THRESHOLD}
RunEnds(T) == {t \in T : ~\E u \in T : u > t /\ u - t <= MERGE_THRESHOLD}

PaddedRuns(T, total) ==
  LET starts == Ascending(RunStarts(T))
      ends == Ascending(RunEnds(T))
  IN [k \in 1..Len(starts) |->
        <<Max(0, starts[k] - SAFETY_PADDING), Min(total, ends[k] + SAFETY_PADDING)>>]

\* C3 (Grouping): the bad segments are exactly the maximal runs of the sorted
\* timestamps with consecutive gaps <= MERGE_THRESHOLD, one segment per run in
\* run order, each [max(0, runStart - 0.25), min(totalDuration, runEnd + 0.25)];
\* events at 1.0, 1.5, 5.0 with totalDuration 10.0 give bad segments
\* [0.75,1.75],[4.75,5.25] and keep segments [0,0.75],[1.75,4.75],[5.25,10.0].
C3_Grouping ==
  \A i \in 1..Len(calls) :
    LET inp == calls[i].input
        out == calls[i].output
    IN /\ BoundsOf(out.badSegments) = PaddedRuns(Timestamps(inp), out.totalDuration)
       /\ (Timestamps(inp) = {4, 6, 20} /\ out.totalDuration = 40)
            => /\ BoundsOf(out.badSegments) = << <<3, 7>>, <<19, 21>> >>
               /\ BoundsOf(out.keepSegments) = << <<0, 3>>, <<7, 19>>, <<21, 40>> >>

C3_Witness ==
  \E i \in 1..Len(calls) :
    /\ calls[i].input = GroupingExample.events
    /\ Len(calls[i].output.badSegments) = 2
    /\ Len(calls[i].output.keepSegments) = 3

\* C4 (Boundary clamping): every bad segment lies within [0, totalDuration];
\* a detection at timestamp 0 gives a bad segment starting at 0 and a
\* detection at timestamp = totalDuration gives one ending at totalDuration.
C4_Clamping ==
  \A i \in 1..Len(calls) :
    LET inp == calls[i].input
        bad == calls[i].output.badSegments
        total == calls[i].output.totalDuration
    IN /\ \A k \in 1..Len(bad) : 0 <= bad[k].start /\ bad[k].end <= total
       /\ 0 \in Timestamps(inp) => \E k \in 1..Len(bad) : bad[k].start = 0
       /\ total \in Timestamps(inp) => \E k \in 1..Len(bad) : bad[k].end = total

C4_Witness ==
  \E i \in 1..Len(calls) :
    /\ 0 \in Timestamps(calls[i].input)
    /\ calls[i].output.totalDuration \in Timestamps(calls[i].input)
    /\ Len(calls[i].output.badSegments) = 2

\* C5 (Empty input): an empty detection array gives no bad segment and exactly
\* one keep segment [0, totalDuration].
C5_EmptyInput ==
  \A i \in 1..Len(calls) :
    calls[i].input = <<>> =>
      /\ calls[i].output.badSegments = <<>>
      /\ BoundsOf(calls[i].output.keepSegments)
           = << <<0, calls[i].output.totalDuration>> >>
      /\ calls[i].output.keepSegments[1].type = "keep"

C5_Witness ==
  \E i \in 1..Len(calls) : calls[i].input = <<>> /\ Len(calls[i].output.keepSegments) = 1

IsOrderedByStart(segs) == \A k \in 1..(Len(segs) - 1) : segs[k].start <= segs[k + 1].start
HasNoNegativeWidth(segs) == \A k \in 1..Len(segs) : segs[k].end >= segs[k].start

\* C6: the bad segments of a result are in ascending order of start and have
\* non-negative width, and so have the keep segments.
C6_OrderedNonNegative ==
  \A out \in Outputs :
    /\ IsOrderedByStart(out.badSegments) /\ HasNoNegativeWidth(out.badSegments)
    /\ IsOrderedByStart(out.keepSegments) /\ HasNoNegativeWidth(out.keepSegments)

C6_Witness ==
  \E i \in 1..Len(calls) :
    /\ ~IsSortedInput(calls[i].input)
    /\ Len(calls[i].output.badSegments) >= 2
    /\ Len(calls[i].output.keepSegments) >= 2

\* a list of TimeRange without the ids
RECURSIVE WithoutIds(_)
WithoutIds(segs) ==
  IF segs = <<>> THEN <<>>
  ELSE <<[start |-> segs[1].start, end |-> segs[1].end, type |-> segs[1].type]>>
       \o WithoutIds(Tail(segs))

SameSortedInputTwice ==
  /\ Len(calls) = 2
  /\ calls[1].input = calls[2].input
  /\ IsSortedInput(calls[1].input)

\* C7 as stated (Idempotence): running the Segment Builder twice on the same
\* sorted events and the same totalDuration yields identical output.
C7_IdenticalOutput ==
  SameSortedInputTwice => calls[1].output.badSegments = calls[2].output.badSegments

\* C7 as amended: the two outputs have the same segments in the same order
\* with the same start, end and type; the ids, being fresh random UUIDs, are
\* not the same.
C7_IdenticalUpToIds ==
  SameSortedInputTwice =>
    /\ WithoutIds(calls[1].output.badSegments) = WithoutIds(calls[2].output.badSegments)
    /\ \A k \in 1..Len(calls[1].output.badSegments) :
         calls[1].output.badSegments[k].id # calls[2].output.badSegments[k].id

C7_Witness ==
  /\ SameSortedInputTwice
  /\ Len(calls[1].output.badSegments) >= 2
  /\ Len(calls[2].output.badSegments) >= 2

\* C8 (Order independence): whatever the order in which the same events are
\* passed, the start/end bounds of the bad and keep segments are those
\* obtained for the sorted order.
C8_OrderIndependence ==
  \A i, j \in 1..Len(calls) :
    (IsSortedInput(calls[j].input) /\ calls[i].input \in Orderings(calls[j].input))
      => Bounds(calls[i].output) = Bounds(calls[j].output)

C8_Witness ==
  /\ Len(calls) = 2
  /\ ~IsSortedInput(calls[1].input)
  /\ IsSortedInput(calls[2].input)
  /\ Len(calls[2].output.badSegments) >= 2

\* the cursor of calculateKeepRanges when it reaches the k-th bad segment
RECURSIVE CursorAt(_, _)
CursorAt(bad, k) == IF k = 1 THEN 0 ELSE Max(CursorAt(bad, k - 1), bad[k - 1].end)

BadStartsAtCursor(out) ==
  {k \in 1..Len(out.badSegments) :
     out.badSegments[k].start = CursorAt(out.badSegments, k)}

\* C9 as stated: zero-width keep segments are not filtered: where a bad
\* segment starts exactly at the cursor, the result has the keep segment
\* [cursor, cursor].
C9_ZeroWidthKept ==
  \A out \in Outputs :
    \A k \in BadStartsAtCursor(out) :
      \E m \in 1..Len(out.keepSegments) :
        /\ out.keepSegments[m].start = out.badSegments[k].start
        /\ out.keepSegments[m].end = out.badSegments[k].start

\* C9 as amended: no result contains a zero-width keep segment: every keep
\* segment has start < end, and where a bad segment starts exactly at the
\* cursor no keep segment is emitted for it.
C9_NoZeroWidthKeep ==
  \A out \in Outputs :
    /\ \A m \in 1..Len(out.keepSegments) :
         out.keepSegments[m].start < out.keepSegments[m].end
    /\ \A k \in BadStartsAtCursor(out) :
         ~\E m \in 1..Len(out.keepSegments) :
            out.keepSegments[m].end = out.badSegments[k].start

C9_Witness ==
  \E out \in Outputs :
    /\ BadStartsAtCursor(out) # {}
    /\ Len(out.keepSegments) >= 1

----------------------------------------------------------------------------
\* Properties of one run of analyzeVideo (under Spec)

\* the instants i / R for i = 0 .. n - 1
Instants(n) == [i \in 1..n |-> (i - 1) * interval]

\* C10 as stated: a run samples exactly the instants i / R for
\* i = 0 .. floor(D * R), so floor(D * R) + 1 frames, t = D included when
\* D * R is an integer.
C10_SamplesThroughEnd ==
  settled = "resolved" => seeks = Instants((duration * FPS_SAMPLE_RATE) \div 4 + 1)

\* C10 as amended: a run samples exactly the instants i / R with i / R < D,
\* each once and in increasing order: ceil(D * R) frames, which is
\* floor(D * R) + 1 only when D * R is not an integer; t = D is never sampled.
C10_SamplesBeforeEnd ==
  /\ \A i \in 1..Len(seeks) : seeks[i] = (i - 1) * interval /\ seeks[i] < duration
  /\ settled = "resolved" =>
       seeks = Instants((duration * FPS_SAMPLE_RATE + 3) \div 4)

C10_Witness ==
  /\ settled = "resolved"
  /\ (duration * FPS_SAMPLE_RATE) % 4 = 0
  /\ Len(seeks) = (duration * FPS_SAMPLE_RATE) \div 4
  /\ Len(seeks) >= 2

Last(q) == q[Len(q)]

OutcomeKinds == {outcomes[i].kind : i \in 1..Len(outcomes)}

\* C11: within one run, each onProgress emission reports processedFrames one
\* higher and currentTimestamp one sampling interval later than the emission
\* before it.
C11_MonotonicProgress ==
  \A i \in 1..(Len(progressLog) - 1) :
    /\ progressLog[i + 1].processedFrames = progressLog[i].processedFrames + 1
    /\ progressLog[i + 1].currentTimestamp = progressLog[i].currentTimestamp + interval

C11_Witness ==
  /\ Len(progressLog) >= 3
  /\ OutcomeKinds = {"nomatch", "throw", "match"}

\* C12: every sampled frame, whether it matched, did not match or the
\* matcher threw, has exactly one emission, made for that frame's instant
\* before the seek to the next frame is issued.
C12_OneEmissionPerFrame ==
  /\ Len(progressLog) = Len(outcomes)
  /\ \A i \in 1..Len(progressLog) : progressLog[i].currentTimestamp = seeks[i]
  /\ Len(seeks) = Len(progressLog) + (IF pc = "seeking" THEN 1 ELSE 0)

C12_Witness ==
  /\ pc = "seeking"
  /\ Len(seeks) = 3
  /\ OutcomeKinds = {"throw", "nomatch"}

\* what the specification asks of the fps field: processedFrames / elapsed
\* seconds, rounded, and 0 when no time has elapsed
FramesPerSecond_Clamped(fc, e) ==
  IF e > 0 THEN Finite(Round(fc * 1000, e)) ELSE Finite(0)

\* C13: in both matcher variants the fps of every emission is the rounded
\* processedFrames / elapsed seconds, and 0 when the elapsed time is 0.
C13_FpsClamped ==
  progressLog # <<>> =>
    Last(progressLog).fps =
      FramesPerSecond_Clamped(Last(progressLog).processedFrames, elapsed)

\* C14: once the matcher has failed on a frame of a run, the run has ended
\* with an error: it is rejected, samples no further frame and returns no
\* detections.
C14_AbortOnFailure ==
  "throw" \in OutcomeKinds => settled = "rejected" /\ pc = "ended"

\* the step in which the catch block of handleStartProcessing runs
RejectionHandled == hpc = "awaitAnalyze" /\ settled = "rejected" /\ hpc' = "none"

C16_ExclusiveRun ==
  /\ inFlight <= 1
  /\ inFlight = 1 => (appState = "PROCESSING" /\ ~canStartProcessing)
  /\ inFlight = 1 <=> (runCount > 0 /\ settled = "pending")

C16_Witness ==
  /\ inFlight = 1
  /\ runCount = 2
  /\ pc = "seeking"
  /\ Len(seeks) >= 2
  /\ timelineData # <<>>

\* C17: the detections of a run are in strictly increasing timestamp order,
\* so there is at most one detection per sampled instant.
C17_DetectionOrder ==
  \A i, j \in 1..Len(detections) :
    i < j => detections[i].timestamp < detections[j].timestamp

C17_Witness ==
  /\ settled = "resolved"
  /\ Len(detections) = 3
  /\ "throw" \notin OutcomeKinds

SampledInstants == {seeks[i] : i \in 1..Len(seeks)}

\* C18: every detection of a run carries one of the instants the run sought
\* to, within [0, video.duration], and the detections handed to
\* processDetections lie in [0, totalDuration] of that call.
C18_DetectionRange ==
  /\ \A t \in Timestamps(detections) :
       t \in SampledInstants /\ 0 <= t /\ t <= duration
  /\ \A t \in Timestamps(events) : 0 <= t /\ t <= totalDuration

C18_Witness ==
  /\ appState = "REVIEW"
  /\ totalDuration = 5
  /\ Timestamps(events) = {0, 4}
  /\ events = detections

\* C19: a run that waits for 'seeked' is eventually settled, also when the
\* signal never arrives (by failing with a seek timeout).
C19_SeekTimeout == (pc = "seeking") ~> (settled # "pending")

\* the detections that the per-frame outcomes outs[i..] alone determine
RECURSIVE DetectionsFrom(_, _)
DetectionsFrom(outs, i) ==
  IF i > Len(outs) THEN <<>>
  ELSE (IF outs[i].kind = "match"
        THEN <<DetectionEvent((i - 1) * interval, outs[i].confidence)>>
        ELSE <<>>) \o DetectionsFrom(outs, i + 1)

\* number of frames of a video of duration dur: ceil(dur * R)
FramesOf(dur) == (dur * FPS_SAMPLE_RATE + 3) \div 4

\* C20: what a run returns is determined by the duration and the per-frame
\* match outcomes of that run alone, whatever ran before: the instants
\* sampled, the frame counter, the detections, and the segment bounds
\* computed from them; so a re-invocation with the same inputs gives the
\* same result and nothing of an earlier run carries over.
C20_Reinvocation ==
  /\ settled = "resolved" =>
       /\ seeks = Instants(FramesOf(duration))
       /\ frameCount = Len(outcomes)
       /\ Len(outcomes) = FramesOf(duration)
       /\ detections = DetectionsFrom(outcomes, 1)
  /\ appState = "REVIEW" =>
       /\ settled = "resolved"
       /\ timelineData # <<>>
       /\ Bounds(timelineData[1]) =
            Bounds(processDetections(DetectionsFrom(outcomes, 1), AssetDuration, 0))

C20_Witness ==
  /\ runCount = 2
  /\ appState = "REVIEW"
  /\ Len(detections) >= 1
  /\ Len(detections) < Len(outcomes)
  /\ uuidCount >= Len(timelineData[1].badSegments) + Len(timelineData[1].keepSegments) + 2

\* C25: no emission reports more processed frames than total frames, and
\* the last emission of a completed run reports exactly the total.
C25_ProgressWithinTotal ==
  /\ \A i \in 1..Len(progressLog) :
       progressLog[i].processedFrames <= progressLog[i].totalFrames
  /\ (settled = "resolved" /\ progressLog # <<>>) =>
       Last(progressLog).processedFrames = Last(progressLog).totalFrames

\* C26: a run that still waits for 'loadeddata' or 'error' of its video has
\* not missed the event: the video has neither become ready nor failed
\* before the handlers were attached.
C26_VideoEventNotMissed == pc = "waitVideo" => video = "loading"

\* C27: a run that has started sampling never seeks to an instant twice nor
\* to one at or after the duration, and, when every seek completes, it
\* resolves.
C27_Termination ==
  /\ [](/\ \A i, j \in 1..Len(seeks) : i < j => seeks[i] < seeks[j]
        /\ \A i \in 1..Len(seeks) : seeks[i] < duration)
  /\ (pc = "seeking") ~> (settled = "resolved")

C27_Witness ==
  /\ settled = "resolved"
  /\ Len(seeks) = 3
  /\ duration = 5

\* the step in which the application enters the given state
Enters(st) == appState # st /\ appState' = st

\* C29: PROCESSING is entered from PREVIEW with a video and a reference
\* image; REVIEW is entered from PROCESSING after the run resolved, with the
\* timeline of that run; PROCESSING is left only for REVIEW or PREVIEW; in
\* REVIEW timelineData is never null.
C29_RunStateMachine ==
  /\ [](appState = "REVIEW" => (timelineData # <<>> /\ settled = "resolved"))
  /\ [][/\ Enters("PROCESSING") =>
             (appState = "PREVIEW" /\ activeAsset # <<>> /\ referenceImg)
        /\ Enters("REVIEW") =>
             /\ appState = "PROCESSING"
             /\ settled = "resolved"
             /\ timelineData' =
                  <<processDetections(detections, AssetDuration, uuidCount)>>
        /\ (appState = "PROCESSING" /\ appState' # appState) =>
             \/ appState' = "REVIEW"
             \/ appState' = "PREVIEW" /\ settled = "rejected"
       ]_vars

C29_Witness ==
  /\ appState = "REVIEW"
  /\ runCount = 2
  /\ Len(timelineData[1].badSegments) >= 1
  /\ Len(timelineData[1].keepSegments) >= 1

\* C30: a call of processDetections leaves the caller's events array with
\* the same elements in the same order, whatever the order was.
C30_InputUnchanged ==
  [][calls' # calls =>
       (events' = events /\ events' = Last(calls').input)]_vars

C30_Witness ==
  /\ calls # <<>>
  /\ ~IsSortedInput(Last(calls).input)
  /\ Len(events) = MaxEvents
  /\ events = Last(calls).input

\* C22: the frame read for each sample is the frame at the instant the
\* sampler sought to, read after that seek completed; the next seek is
\* issued only after the frame of the one before has been read and matched.
C22_SeekThenRead ==
  /\ Len(reads) = Len(outcomes)
  /\ Len(reads) <= Len(seeks)
  /\ \A i \in 1..Len(reads) : reads[i] = seeks[i]
  /\ Len(seeks) = Len(reads) + (IF pc = "seeking" THEN 1 ELSE 0)

C22_Witness ==
  /\ pc = "seeking"
  /\ reads = <<0, 2>>
  /\ seeks = <<0, 2, 4>>

\* C23: a turn of the host scheduler in which a frame is read and matched
\* reads one frame only, issues no seek and leaves the loop waiting for its
\* timer; a turn that issues a seek reads no frame.
C23_CooperativeYield ==
  [][/\ (reads' # reads /\ runCount' = runCount) =>
          /\ Len(reads') = Len(reads) + 1
          /\ Len(outcomes') = Len(outcomes) + 1
          /\ seeks' = seeks
          /\ pc' = "timeout"
     /\ (seeks' # seeks /\ runCount' = runCount) =>
          /\ reads' = reads
          /\ Len(seeks') = Len(seeks) + 1
          /\ pc' = "seeking"
    ]_vars

C23_Witness ==
  /\ pc = "timeout"
  /\ Len(reads) = 2
  /\ Len(seeks) = 2
  /\ duration = 5

\* C28: when the promise of a run has settled, every matrix allocated for
\* the run and the template have been deleted, once; while the run samples
\* they are live.
C28_BuffersReleased ==
  /\ pc \in {"seeking", "timeout"} =>
       (mats = "live" /\ (variant = "template" => template = "live"))
  /\ (runCount > 0 /\ settled # "pending") =>
       (mats \in {"none", "deleted"} /\ template \in {"none", "deleted"})

----------------------------------------------------------------------------
\* Properties of the colour matcher on one frame (under MatcherSpec)

AreaSet(areas) == {areas[i] : i \in 1..Len(areas)}
LargestArea(areas) ==
  IF areas = <<>> THEN 0
  ELSE CHOOSE a \in AreaSet(areas) : \A b \in AreaSet(areas) : b <= a

\* C24: a frame pushes a detection iff its largest contour area is strictly
\* more than 15 % of the frame area, then exactly one, whose confidence is
\* largest area / frame area x 100: filtering by the threshold before taking
\* the maximum gives what taking the maximum first gives.
C24_LargestContour ==
  mpc = "matched" =>
    /\ Len(matchResult) <= 1
    /\ matchResult # <<>> <=>
         LargestArea(contourAreas) * 100 > FrameArea * AREA_THRESHOLD_PERCENT
    /\ matchResult # <<>> =>
         matchResult[1] = Confidence(LargestArea(contourAreas), FrameArea)

C24_Witness ==
  /\ mpc = "matched"
  /\ contourAreas = <<3, 7, 5>>
  /\ matchResult = <<Confidence(7, FrameArea)>>

----------------------------------------------------------------------------
\* Properties of loadOpenCV (under LoadSpec)

\* C21: however the calls of loadOpenCV interleave, the script element is
\* appended at most once, and once the runtime is initialised and no script
\* is still to report, no call is left waiting.
C21_InjectedOnce ==
  /\ Len(scripts) <= 1
  /\ (windowCv = "ready" /\ \A k \in 1..Len(scripts) : scripts[k] \in {"loaded", "failed"})
       => \A c \in 1..Len(loadCalls) : loadCalls[c].state \in {"resolved", "rejected"}

====
